---- MODULE Spec2Model ----
(***************************************************************************)
(* The MCP session manager (app/mcp/dependencies.py), the resilient        *)
(* tool-call dispatcher (app/mcp/mcp_utils.py), the agent graph           *)
(* (app/core/langgraph), the connection pool singleton                     *)
(* (app/core/common/connection_pool.py) and the logging middleware         *)
(* (app/api/logging_context.py).                                           *)
(*                                                                         *)
(* The manager owns an AsyncExitStack of entered session contexts, a       *)
(* cached Resource and an initialized flag.  One owner task drives it, so  *)
(* each of its calls is one step.  What the network does (an endpoint      *)
(* refusing the connection, a tool list failing to load, a session close   *)
(* raising, a tool call raising) is chosen by the environment at each      *)
(* call.  "Raises" means an instance of Exception, the class every handler *)
(* of the code names; task cancellation (a BaseException) is outside the   *)
(* model.                                                                  *)
(*                                                                         *)
(* Spec is the process as it runs: the owner task's calls on the manager   *)
(* and handle_mcp_tool_call reconnecting that same manager.  cleanup() and *)
(* initialize() handle every exception themselves, so this manager's       *)
(* reconnect() returns True.  DispatchSpec is handle_mcp_tool_call against *)
(* any manager: reconnect() returns True, returns False or raises.         *)
(*                                                                         *)
(* SeqSpec and ConcSpec are the same code run by asyncio tasks, one step   *)
(* per stretch of code between two awaits that suspend: one task in        *)
(* SeqSpec, two tasks sharing the manager in ConcSpec.  TurnSpec is one    *)
(* chat turn of the agent graph: get_response, the chat node and the       *)
(* tool_call node.  PoolSpec is get_connection_pool called by two tasks;   *)
(* HttpSpec is LoggingContextMiddleware.dispatch handling the requests of  *)
(* one worker, one after the other.                                        *)
(***************************************************************************)
EXTENDS Integers, Sequences, FiniteSets, TLC

\* ------------------------------------------------------------ bounds
MaxEndpoints == 2
MaxRetries == 2
MaxSid == 4
MaxStacks == 3
MaxToolCalls == 2
MaxRounds == 2

VARIABLES
    endpoints,      \* settings.MCP_HOSTNAMES: the configured hosts, in order
    exit_stack,     \* MCPSessionManager._exit_stack
    resource,       \* MCPSessionManager._resource
    initialized,    \* MCPSessionManager._initialized
    open_sessions,  \* the sessions whose transport is open
    next_sid,       \* identity of the next ClientSession object created
    last,           \* the manager call that returned last, and how
    d,              \* the frame of handle_mcp_tool_call
    fm,             \* the manager as concurrent tasks see it, await by await
    tasks,          \* the frame of each task, suspended at an await or idle
    turn,           \* one chat turn of the agent graph
    pg,             \* the connection_pool module: its singleton and its callers
    http            \* LoggingContextMiddleware: the logging context and the request

vars == <<endpoints, exit_stack, resource, initialized, open_sessions, next_sid, last, d,
          fm, tasks, turn, pg, http>>

\* ------------------------------------------------------------ helpers
Range(s) == {s[i] : i \in 1..Len(s)}

Hosts == 1..MaxEndpoints

\* The ordered endpoint lists of the configuration: no host twice.
EndpointLists ==
    {s \in UNION {[1..n -> Hosts] : n \in 0..MaxEndpoints} :
        \A i, j \in 1..Len(s) : i # j => s[i] # s[j]}

\* Optional[AsyncExitStack]: None, or the contexts entered so far.
NoStack == [some |-> FALSE, ctx |-> <<>>]

\* Optional[Resource]: None, or Resource(tools, sessions).
NoResource == [some |-> FALSE, tools |-> <<>>, sessions |-> <<>>]

Resource(tools, sessions) == [some |-> TRUE, tools |-> tools, sessions |-> sessions]

\* The manager's fields and the transports behind them, as one value.
Mgr ==
    [exit_stack |-> exit_stack, resource |-> resource, initialized |-> initialized,
     open |-> open_sessions, next_sid |-> next_sid]

\* What one endpoint does when initialize() reaches it: the connection or
\* the handshake fails (mcp_sse_client raises), the session opens and
\* load_mcp_tools raises, or the session opens and its tools are loaded.
ConnectOutcomes == {"connect_fail", "load_fail", "ok"}

\* The tools host h serves: h of them (host 2 is the spec's endpoint "a"
\* with 2 tools).
NumTools(h) == h

\* load_mcp_tools(session): the host's tool handles, each bound to the session.
load_mcp_tools(session) ==
    [k \in 1..NumTools(session.host) |->
        [host |-> session.host, idx |-> k, sid |-> session.sid]]

\* ------------------------------------------------------------ manager
\* Mutant of ConnectEndpoint: the session is recorded before its tools are
\* loaded, so an endpoint whose tool list fails stays in the Resource.
ConnectEndpoint_load_unchecked(acc, host, out) ==
    LET session == [sid |-> acc.next_sid, host |-> host]
        tried == [acc EXCEPT !.attempts = @ + 1]
    IN  IF out = "connect_fail"
        THEN tried
        ELSE [tried EXCEPT !.ctx = Append(@, session),
                           !.open = @ \cup {session},
                           !.next_sid = @ + 1,
                           !.tools = IF out = "ok" THEN @ \o load_mcp_tools(session) ELSE @,
                           !.sessions = Append(@, session)]

\* Mutant of ConnectEndpoint: the tools are merged, the session that backs
\* them is not recorded.
ConnectEndpoint_session_dropped(acc, host, out) ==
    LET session == [sid |-> acc.next_sid, host |-> host]
        tried == [acc EXCEPT !.attempts = @ + 1]
    IN  IF out = "connect_fail"
        THEN tried
        ELSE [tried EXCEPT !.ctx = Append(@, session),
                           !.open = @ \cup {session},
                           !.next_sid = @ + 1,
                           !.tools = IF out = "ok" THEN @ \o load_mcp_tools(session) ELSE @]

\* One iteration of initialize()'s loop over the hosts: enter the session
\* context on the exit stack, load its tools, record both; any exception
\* skips the host.
ConnectEndpoint(acc, host, out) ==
    LET session == [sid |-> acc.next_sid, host |-> host]
        tried == [acc EXCEPT !.attempts = @ + 1]
    IN  IF out = "connect_fail"
        THEN tried
        ELSE LET entered == [tried EXCEPT !.ctx = Append(@, session),
                                          !.open = @ \cup {session},
                                          !.next_sid = @ + 1]
             IN  IF out = "load_fail"
                 THEN entered
                 ELSE [entered EXCEPT
                          !.tools = @ \o load_mcp_tools(session),
                          !.sessions = Append(@, session)]

RECURSIVE ConnectLoop(_, _, _, _)
ConnectLoop(hosts, outs, i, acc) ==
    IF i > Len(hosts)
    THEN acc
    ELSE ConnectLoop(hosts, outs, i + 1, ConnectEndpoint(acc, hosts[i], outs[i]))

\* Mutant of connect_all: the Resource is cached, the flag is not set.
connect_all_flag_unset(s, hosts, outs) ==
    LET acc == ConnectLoop(hosts, outs, 1,
                   [ctx |-> <<>>, tools |-> <<>>, sessions |-> <<>>,
                    open |-> s.open, next_sid |-> s.next_sid, attempts |-> 0])
        r == Resource(acc.tools, acc.sessions)
    IN  [state |-> [exit_stack |-> [some |-> TRUE, ctx |-> acc.ctx],
                    resource |-> r,
                    initialized |-> FALSE,
                    open |-> acc.open,
                    next_sid |-> acc.next_sid],
         raised |-> FALSE, ret |-> r, attempts |-> acc.attempts]

\* initialize() past its guard: a new exit stack, the loop over the hosts,
\* then the Resource is built, cached and returned.
connect_all(s, hosts, outs) ==
    LET acc == ConnectLoop(hosts, outs, 1,
                   [ctx |-> <<>>, tools |-> <<>>, sessions |-> <<>>,
                    open |-> s.open, next_sid |-> s.next_sid, attempts |-> 0])
        r == Resource(acc.tools, acc.sessions)
    IN  [state |-> [exit_stack |-> [some |-> TRUE, ctx |-> acc.ctx],
                    resource |-> r,
                    initialized |-> TRUE,
                    open |-> acc.open,
                    next_sid |-> acc.next_sid],
         raised |-> FALSE, ret |-> r, attempts |-> acc.attempts]

\* Mutant of initialize: the already-initialized guard is missing.
initialize_unguarded(s, hosts, outs) == connect_all(s, hosts, outs)

\* initialize(): the state it leaves, whether it raised, what it returned
\* and how many connections it attempted.
initialize(s, hosts, outs) ==
    IF s.initialized
    THEN [state |-> s, raised |-> FALSE, ret |-> s.resource, attempts |-> 0]
    ELSE connect_all(s, hosts, outs)

\* Mutant of aexit: the unwinding stops at the first context whose exit
\* raises, the contexts entered before it (exited after it) stay open.
aexit_stops_at_failure(ctx, fails) ==
    LET failing == {i \in 1..Len(ctx) : ctx[i] \in fails}
        stop == IF failing = {} THEN 1
                ELSE CHOOSE i \in failing : \A j \in failing : j <= i
    IN  [closed |-> {ctx[i] : i \in stop..Len(ctx)}, raised |-> failing # {}]

\* AsyncExitStack.__aexit__: every entered context is exited; an exception
\* raised by one of them is raised once all have been exited.
aexit(ctx, fails) ==
    [closed |-> Range(ctx), raised |-> (Range(ctx) \cap fails) # {}]

\* Mutants of cleanup: the reset is not in a finally and the close failure
\* is not caught, so a failed close leaves the fields as they were; the
\* fields are reset and the exit stack is dropped without being exited; the
\* close failure is not caught (the finally still resets).
cleanup_no_finally(s, fails) ==
    IF ~s.exit_stack.some
    THEN [state |-> s, raised |-> FALSE, close_raised |-> FALSE]
    ELSE LET x == aexit(s.exit_stack.ctx, fails)
         IN  [state |-> IF x.raised
                        THEN [s EXCEPT !.open = @ \ x.closed]
                        ELSE [s EXCEPT !.exit_stack = NoStack,
                                       !.resource = NoResource,
                                       !.initialized = FALSE,
                                       !.open = @ \ x.closed],
              raised |-> x.raised, close_raised |-> x.raised]

cleanup_without_close(s, fails) ==
    IF ~s.exit_stack.some
    THEN [state |-> s, raised |-> FALSE, close_raised |-> FALSE]
    ELSE [state |-> [s EXCEPT !.exit_stack = NoStack,
                              !.resource = NoResource,
                              !.initialized = FALSE],
          raised |-> FALSE, close_raised |-> FALSE]

cleanup_uncaught(s, fails) ==
    IF ~s.exit_stack.some
    THEN [state |-> s, raised |-> FALSE, close_raised |-> FALSE]
    ELSE LET x == aexit(s.exit_stack.ctx, fails)
         IN  [state |-> [s EXCEPT !.exit_stack = NoStack,
                                  !.resource = NoResource,
                                  !.initialized = FALSE,
                                  !.open = @ \ x.closed],
              raised |-> x.raised, close_raised |-> x.raised]

\* cleanup(): the state it leaves, whether it raised, and whether a session
\* close raised (caught and logged by the except clause; the finally resets
\* the fields either way).
cleanup(s, fails) ==
    IF ~s.exit_stack.some
    THEN [state |-> s, raised |-> FALSE, close_raised |-> FALSE]
    ELSE LET x == aexit(s.exit_stack.ctx, fails)
         IN  [state |-> [s EXCEPT !.exit_stack = NoStack,
                                  !.resource = NoResource,
                                  !.initialized = FALSE,
                                  !.open = @ \ x.closed],
              raised |-> FALSE, close_raised |-> x.raised]

\* reconnect(): cleanup then initialize under one try; an exception of
\* either is the False return.
reconnect(s, hosts, fails, outs) ==
    LET c == cleanup(s, fails)
    IN  IF c.raised
        THEN [state |-> c.state, raised |-> FALSE, ret |-> FALSE,
              close_raised |-> c.close_raised, attempts |-> 0]
        ELSE LET i == initialize(c.state, hosts, outs)
             IN  [state |-> i.state, raised |-> FALSE, ret |-> ~i.raised,
                  close_raised |-> c.close_raised, attempts |-> i.attempts]

\* Mutant of get_resource: the not-initialized test is missing.
get_resource_unchecked(s) == [raised |-> FALSE, ret |-> s.resource]

\* get_resource(): raises RuntimeError unless initialized with a Resource.
get_resource(s) ==
    IF ~s.initialized \/ ~s.resource.some
    THEN [raised |-> TRUE, ret |-> NoResource]
    ELSE [raised |-> FALSE, ret |-> s.resource]

\* ------------------------------------------------------------ dispatcher
\* What tool_fn.ainvoke does: returns, raises ClosedResourceError, or
\* raises any other Exception.
ToolOutcomes == {"ok", "closed", "other"}

\* The tool calls dispatched: tool_name and tool_call["id"].
ToolCalls == {[name |-> "add", id |-> "call_a"], [name |-> "sub", id |-> "call_b"]}

ToolMessage(content, name, tool_call_id) ==
    [content |-> content, name |-> name, tool_call_id |-> tool_call_id]

\* content=tool_result, the value the k-th invocation returned.
tool_result(k) == [error |-> FALSE, tool |-> "", text |-> k, note |-> FALSE]

\* Mutant of error_msg: the connection note is appended whatever the error.
error_msg_always_noted(tool_name, tool_error) ==
    [error |-> TRUE, tool |-> tool_name, text |-> tool_error.k, note |-> TRUE]

\* "[ERROR] Tool '<tool_name>' failed: <str(tool_error)>", followed for a
\* ClosedResourceError by " (MCP connection issue. Attempted reconnection.)".
\* tool_error is [kind, k]: the error the k-th invocation raised.
error_msg(tool_name, tool_error) ==
    [error |-> TRUE, tool |-> tool_name, text |-> tool_error.k,
     note |-> tool_error.kind = "closed"]

NoError == [kind |-> "none", k |-> 0]
NoMessage == ToolMessage([error |-> FALSE, tool |-> "", text |-> 0, note |-> FALSE], "", "")

\* Mutants of can_retry: the last retry is lost; one retry too many; any
\* error is retried; the attempts are not counted.
can_retry_off_by_one(kind, attempt, max_retries) ==
    kind = "closed" /\ attempt + 1 < max_retries

can_retry_inclusive(kind, attempt, max_retries) ==
    kind = "closed" /\ attempt <= max_retries

can_retry_any_error(kind, attempt, max_retries) ==
    attempt < max_retries

can_retry_unbounded(kind, attempt, max_retries) ==
    kind = "closed"

\* The except clause's test: a ClosedResourceError with attempts left.
can_retry(kind, attempt, max_retries) ==
    kind = "closed" /\ attempt < max_retries

\* Mutant of on_tool_outcome: the first failure is followed by a reconnect
\* whatever the error and whatever max_retries.
on_tool_outcome_reconnect_first(out, attempt, max_retries) ==
    IF out = "ok" THEN "return"
    ELSE IF attempt = 0 \/ can_retry(out, attempt, max_retries) THEN "reconnect"
    ELSE "fail"

\* What follows one tool_fn.ainvoke inside the try of the attempt loop.
on_tool_outcome(out, attempt, max_retries) ==
    IF out = "ok" THEN "return"
    ELSE IF can_retry(out, attempt, max_retries) THEN "reconnect"
    ELSE "fail"

\* Mutants of on_reconnect_outcome: the returned flag is not tested; the
\* hook is not called; the inner try is missing.
on_reconnect_ignores_result(rc, has_hook) ==
    IF rc = "raise" THEN "fail" ELSE (IF has_hook THEN "hook" ELSE "continue")

on_reconnect_hook_skipped(rc, has_hook) ==
    IF rc = "true" THEN "continue" ELSE "fail"

on_reconnect_uncaught(rc, has_hook) ==
    IF rc = "true" THEN (IF has_hook THEN "hook" ELSE "continue")
    ELSE IF rc = "raise" THEN "propagate"
    ELSE "fail"

\* What follows mcp_manager.reconnect() inside the inner try: rc is "true",
\* "false" or "raise" (caught by except Exception as reconnect_error).
on_reconnect_outcome(rc, has_hook) ==
    IF rc = "true" THEN (IF has_hook THEN "hook" ELSE "continue")
    ELSE "fail"

\* Mutant of on_hook_outcome: what the hook raises is swallowed and the tool
\* is retried.
on_hook_outcome_swallowed(out) == "continue"

\* What follows await on_reconnect() inside the same inner try.
on_hook_outcome(out) ==
    IF out = "ok" THEN "continue" ELSE "fail"

IdleFrame ==
    [pc |-> "idle", max_retries |-> 0, has_hook |-> FALSE, tool_name |-> "",
     tool_call_id |-> "", attempt |-> 0, tool_error |-> NoError,
     trace |-> <<>>, result |-> NoMessage]

Event(ev, out) == [ev |-> ev, out |-> out]

Count(trace, ev) == Cardinality({i \in 1..Len(trace) : trace[i].ev = ev})

\* The frame after the attempt loop took branch `to`.
Advance(f, to, trace) ==
    CASE to = "return" ->
            [f EXCEPT !.pc = "done", !.trace = trace,
                      !.result = ToolMessage(tool_result(Count(trace, "invoke")),
                                             f.tool_name, f.tool_call_id)]
      [] to = "reconnect" -> [f EXCEPT !.pc = "reconnect", !.trace = trace]
      [] to = "hook" -> [f EXCEPT !.pc = "hook", !.trace = trace]
      [] to = "continue" ->
            [f EXCEPT !.pc = "invoke", !.trace = trace, !.attempt = @ + 1]
      [] to = "fail" ->
            [f EXCEPT !.pc = "done", !.trace = trace,
                      !.result = ToolMessage(error_msg(f.tool_name, f.tool_error),
                                             f.tool_name, f.tool_call_id)]
      [] OTHER -> [f EXCEPT !.pc = "raised", !.trace = trace]

\* ------------------------------------------------------------ tasks
\* The same manager and dispatcher run by asyncio tasks.  A task runs until
\* its next await that suspends, so a step is the code between two
\* suspensions: a connection being made, a tool list being loaded, a
\* session context being exited, a tool invocation, the hook.
Tasks == {1, 2}

\* The log events of mcp_sse_client: one on entry, one when the connection
\* and the handshake are over (the finally logs the close when they
\* failed), one when the context is exited.
mcp_sse_client_start == <<"mcp_connection_initiated">>

\* Mutant of mcp_sse_client_entered: the close is not logged in a finally.
mcp_sse_client_entered_no_finally(out) ==
    IF out = "ok" THEN <<"mcp_session_initialized">> ELSE <<>>

mcp_sse_client_entered(out) ==
    IF out = "ok" THEN <<"mcp_session_initialized">> ELSE <<"mcp_session_closed">>

mcp_sse_client_exit == <<"mcp_session_closed">>

\* One mcp_sse_client(hostname, correlation_id) context: its host, where it
\* is ("connecting", "failed", "open", "closing", "closed") and the events
\* logged under its correlation id.  The correlation id is its position in
\* fm.conns.
Conn(host, state, events) == [host |-> host, state |-> state, events |-> events]

\* MCPSessionManager.__init__, with the AsyncExitStack objects ever created
\* (exit_stack is None, 0, or one of them) and the session contexts ever
\* created.
NewTaskMgr ==
    [exit_stack |-> 0, stacks |-> <<>>, conns |-> <<>>,
     resource |-> NoResource, initialized |-> FALSE]

NoTool == [host |-> 0, idx |-> 0, sid |-> 0]

\* A task: the call it makes on the manager or the dispatcher, the await it
\* is suspended at, and the locals of the frames of that call.
IdleTask ==
    [op |-> "none", pc |-> "idle", in_reconnect |-> FALSE,
     stack |-> 0, cid |-> 0, i |-> 0, tools |-> <<>>, sessions |-> <<>>,
     tool_fn |-> NoTool, max_retries |-> 0, has_hook |-> FALSE, attempt |-> 0]

\* The outermost call of the task returns: its frames are gone.
Return(w) == [w EXCEPT !.f = IdleTask]

\* The attempt loop goes round: the next tool_fn.ainvoke is awaited.
dispatch_continue(w) == [w EXCEPT !.f.pc = "invoke", !.f.attempt = @ + 1]

\* handle_mcp_tool_call after mcp_manager.reconnect() returned rc.
after_reconnect(w, rc) ==
    LET to == on_reconnect_outcome(rc, w.f.has_hook)
    IN  CASE to = "hook" -> [w EXCEPT !.f.pc = "hook"]
          [] to = "continue" -> dispatch_continue(w)
          [] OTHER -> Return(w)

\* reconnect() returns True to its caller.
reconnect_return(w) ==
    LET v == [w EXCEPT !.f.in_reconnect = FALSE]
    IN  IF w.f.op = "dispatch" THEN after_reconnect(v, "true") ELSE Return(v)

\* initialize() returns the Resource to its caller.
initialize_return(w) ==
    LET v == [w EXCEPT !.f.i = 0, !.f.tools = <<>>, !.f.sessions = <<>>,
                       !.f.stack = 0, !.f.cid = 0]
    IN  IF w.f.in_reconnect THEN reconnect_return(v) ELSE Return(v)

\* The end of initialize(): the Resource is built from the locals and cached.
initialize_finish(w) ==
    initialize_return([w EXCEPT !.m.resource = Resource(w.f.tools, w.f.sessions),
                                !.m.initialized = TRUE])

\* initialize()'s loop from host i on, up to the next suspension: the
\* attribute self._exit_stack is read (None: the AttributeError skips the
\* host), the context logs its start and the connection is awaited.
RECURSIVE initialize_loop(_, _)
initialize_loop(w, hosts) ==
    IF w.f.i > Len(hosts)
    THEN initialize_finish(w)
    ELSE IF w.m.exit_stack = 0
    THEN initialize_loop([w EXCEPT !.f.i = @ + 1], hosts)
    ELSE [w EXCEPT !.f.pc = "connecting",
                   !.f.stack = w.m.exit_stack,
                   !.f.cid = Len(w.m.conns) + 1,
                   !.m.conns = Append(@, Conn(hosts[w.f.i], "connecting",
                                              mcp_sse_client_start))]

\* initialize() from its first line.
initialize_enter(w, hosts) ==
    IF w.m.initialized
    THEN initialize_return(w)
    ELSE initialize_loop([w EXCEPT !.m.stacks = Append(@, <<>>),
                                   !.m.exit_stack = Len(w.m.stacks) + 1,
                                   !.f.i = 1, !.f.tools = <<>>, !.f.sessions = <<>>],
                         hosts)

\* cleanup() returns to its caller.
cleanup_return(w, hosts) ==
    LET v == [w EXCEPT !.f.stack = 0, !.f.cid = 0]
    IN  IF w.f.in_reconnect THEN initialize_enter(v, hosts) ELSE Return(v)

\* The finally of cleanup().
cleanup_finally(w, hosts) ==
    cleanup_return([w EXCEPT !.m.exit_stack = 0,
                             !.m.resource = NoResource,
                             !.m.initialized = FALSE], hosts)

\* AsyncExitStack.__aexit__ of the stack the task holds: the context
\* entered last is taken off and its exit awaited; none left, __aexit__ is
\* over and the finally runs.
aexit_next(w, hosts) ==
    LET ctx == w.m.stacks[w.f.stack]
    IN  IF ctx = <<>>
        THEN cleanup_finally(w, hosts)
        ELSE [w EXCEPT !.m.stacks[w.f.stack] = SubSeq(ctx, 1, Len(ctx) - 1),
                       !.m.conns[ctx[Len(ctx)]].state = "closing",
                       !.f.cid = ctx[Len(ctx)],
                       !.f.pc = "closing"]

\* cleanup() from its first line.
cleanup_enter(w, hosts) ==
    IF w.m.exit_stack = 0
    THEN cleanup_return(w, hosts)
    ELSE aexit_next([w EXCEPT !.f.stack = w.m.exit_stack], hosts)

\* reconnect() from its first line.
reconnect_enter(w, hosts) == cleanup_enter([w EXCEPT !.f.in_reconnect = TRUE], hosts)

\* Mutant of exit_context: the close is logged, the transport is left open.
exit_context_log_only(m, c) ==
    [m EXCEPT !.conns[c].state = "open",
              !.conns[c].events = @ \o mcp_sse_client_exit]

\* The exit of context c has completed: the ClientSession and the SSE
\* streams are closed and the finally has logged it.
exit_context(m, c) ==
    [m EXCEPT !.conns[c].state = "closed",
              !.conns[c].events = @ \o mcp_sse_client_exit]

\* The sessions whose transport is open: entered and not exited.
OpenConns(m) == {c \in 1..Len(m.conns) : m.conns[c].state = "open"}

\* What tool_fn.ainvoke can do: anything through an open session; through
\* a session being exited or exited, it raises.
InvokeOutcomes(m, tool_fn) ==
    IF tool_fn.sid \in OpenConns(m) THEN ToolOutcomes ELSE ToolOutcomes \ {"ok"}

\* ------------------------------------------------------------ agent graph
\* The graph of LangGraphAgent: entry point "chat", chat routes to
\* "tool_call" or END, tool_call routes to "chat".

\* The tool calls one LLM response can ask for.
ToolCallLists == UNION {[1..n -> ToolCalls] : n \in 0..MaxToolCalls}

\* The messages of the graph state.
HumanMessage == [role |-> "human", tool_calls |-> <<>>, tool |-> NoMessage]
AIMessage(tool_calls) == [role |-> "ai", tool_calls |-> tool_calls, tool |-> NoMessage]
ToolEntry(m) == [role |-> "tool", tool_calls |-> <<>>, tool |-> m]

\* chat_node: the next node after the LLM answered with response_message.
chat_goto(response_message) ==
    IF response_message.tool_calls # <<>> THEN "tool_call" ELSE "END"

\* One turn (get_response): the node about to run, state.messages, the
\* outputs list of tool_call_node, the chat steps that asked for tools,
\* what get_response returned ("messages", or "none" from its except
\* clause) and the id of the tool call whose invocation raised.
IdleTurn ==
    [pc |-> "idle", messages |-> <<>>, outputs |-> <<>>, rounds |-> 0,
     response |-> "none", failed |-> ""]

\* get_response's except clause: the error is logged, nothing is returned.
get_response_failed(g) == [g EXCEPT !.pc = "returned", !.response = "none", !.outputs = <<>>]

\* chat_node with the LLM's answer: the message is added to the state and
\* the graph goes to tool_call, or ends and get_response returns the messages.
chat_node(g, response_message) ==
    LET added == [g EXCEPT !.messages = Append(@, response_message)]
    IN  IF chat_goto(response_message) = "tool_call"
        THEN [added EXCEPT !.pc = "tool_call", !.outputs = <<>>, !.rounds = @ + 1]
        ELSE [added EXCEPT !.pc = "returned", !.response = "messages"]

\* One iteration of tool_call_node's loop: the invocation returned, its
\* ToolMessage is appended to outputs; after the last tool call the outputs
\* are added to the state and the graph goes to chat.
tool_call_node(g, tool_call) ==
    LET n == Len(g.outputs) + 1
        outputs == Append(g.outputs, ToolMessage(tool_result(n), tool_call.name, tool_call.id))
    IN  IF n < Len(g.messages[Len(g.messages)].tool_calls)
        THEN [g EXCEPT !.outputs = outputs]
        ELSE [g EXCEPT !.messages = @ \o [i \in 1..Len(outputs) |-> ToolEntry(outputs[i])],
                       !.outputs = <<>>,
                       !.pc = "chat"]

\* ------------------------------------------------------------ connection pool
\* The module app/core/common/connection_pool.py (the same function is
\* defined in app/core/langgraph/checkpointer.py): whether it has been
\* imported, settings.ENVIRONMENT == Environment.PRODUCTION, the global
\* _connection_pool (None, 0, or one of the pools), the AsyncConnectionPool
\* objects ever constructed ("opening", "open" or "failed") and the frame of
\* each caller of get_connection_pool.
IdleCall == [pc |-> "idle", ret |-> "none", pool |-> 0]

NewPoolModule ==
    [loaded |-> FALSE, production |-> FALSE, connection_pool |-> 0, pools |-> <<>>,
     calls |-> [t \in Tasks |-> IdleCall]]

\* `return _connection_pool`: the global as it is when the call returns.
pool_return(w) ==
    [w EXCEPT !.c.pc = "returned", !.c.ret = "pool", !.c.pool = w.p.connection_pool]

\* The except clause: None in production, the exception raised otherwise.
pool_creation_failed(w) ==
    [w EXCEPT !.c.pc = "returned", !.c.pool = 0,
              !.c.ret = IF w.p.production THEN "None" ELSE "raise"]

\* get_connection_pool() up to its first suspension: the cached pool is
\* returned; or the pool is constructed (which raises or not), assigned to
\* the global and its open() awaited.
get_connection_pool(w, constructed) ==
    IF w.p.connection_pool # 0
    THEN pool_return(w)
    ELSE IF ~constructed
    THEN pool_creation_failed(w)
    ELSE [w EXCEPT !.p.pools = Append(@, "opening"),
                   !.p.connection_pool = Len(w.p.pools) + 1,
                   !.c.pool = Len(w.p.pools) + 1,
                   !.c.pc = "opening"]

\* await _connection_pool.open() completes: it returned or it raised.
pool_opened(w, ok) ==
    IF ok
    THEN pool_return([w EXCEPT !.p.pools[w.c.pool] = "open"])
    ELSE pool_creation_failed([w EXCEPT !.p.pools[w.c.pool] = "failed"])

\* ------------------------------------------------------------ logging middleware
\* The logging context of the worker: the keys bound, "" for a key that is
\* not bound.
EmptyContext == [session_id |-> "", user_id |-> "", mcp_tool_name |-> ""]

\* clear_context() and bind_context(key=value) of app.core.common.logging.
clear_context(context) == EmptyContext

bind_context(context, key, value) == [context EXCEPT ![key] = value]

\* The requests: no Authorization header, one of another scheme, or
\* "Bearer <token>" with a token that jwt.decode rejects or accepts; sub is
\* the "sub" claim of its payload, "" when it is missing or empty.
Token(valid, sub) == [valid |-> valid, sub |-> sub]

Request(scheme, token) == [scheme |-> scheme, token |-> token]

Requests ==
    {Request("none", Token(FALSE, "")), Request("Basic", Token(FALSE, ""))}
    \cup {Request("Bearer", Token(FALSE, ""))}
    \cup {Request("Bearer", Token(TRUE, sub)) : sub \in {"", "s1", "s2"}}

\* jwt.decode(token, key, algorithms): the payload, or JWTError.
jwt_decode(token) ==
    IF token.valid
    THEN [raised |-> FALSE, payload |-> [sub |-> token.sub]]
    ELSE [raised |-> TRUE, payload |-> [sub |-> ""]]

\* dispatch up to `await call_next(request)`: the context is cleared, a
\* bearer token is decoded and its non-empty sub bound as session_id; a
\* JWTError is passed over.  The context it leaves and what it did, in order.
dispatch_enter(context, request) ==
    LET cleared == clear_context(context)
    IN  IF request.scheme # "Bearer"
        THEN [context |-> cleared, ops |-> <<"clear", "call_next">>]
        ELSE LET r == jwt_decode(request.token)
             IN  IF ~r.raised /\ r.payload.sub # ""
                 THEN [context |-> bind_context(cleared, "session_id", r.payload.sub),
                       ops |-> <<"clear", "decode", "bind_session_id", "call_next">>]
                 ELSE [context |-> cleared, ops |-> <<"clear", "decode", "call_next">>]

\* Mutant of dispatch_exit: the final clear is not in a finally.
dispatch_exit_no_finally(context, out, user_id) ==
    IF out = "raised"
    THEN [context |-> context, ops |-> <<>>, outcome |-> "raised"]
    ELSE [context |-> clear_context(context),
          ops |-> (IF user_id # "" THEN <<"bind_user_id">> ELSE <<>>) \o <<"clear">>,
          outcome |-> "response"]

\* dispatch from the completion of call_next on: when it returned and
\* request.state has a user_id (user_id # ""), that is bound; the finally
\* clears the context whether call_next returned or raised; the response is
\* returned or the exception goes on to the caller.
dispatch_exit(context, out, user_id) ==
    IF out = "raised"
    THEN [context |-> clear_context(context), ops |-> <<"clear">>, outcome |-> "raised"]
    ELSE [context |-> clear_context(IF user_id # ""
                                    THEN bind_context(context, "user_id", user_id)
                                    ELSE context),
          ops |-> (IF user_id # "" THEN <<"bind_user_id">> ELSE <<>>) \o <<"clear">>,
          outcome |-> "response"]

\* The worker: its logging context, where dispatch is, the request it
\* handles, request.state.user_id ("" while request.state has none), what
\* dispatch has done to the context so far, how call_next ended and how
\* dispatch ended.
NoRequest == Request("none", Token(FALSE, ""))

NewWorker ==
    [context |-> EmptyContext, pc |-> "idle", request |-> NoRequest, user_id |-> "",
     ops |-> <<>>, downstream |-> "none", outcome |-> "none"]

\* ------------------------------------------------------------ state machine
\* MCPSessionManager.__init__
NewMgr ==
    [exit_stack |-> NoStack, resource |-> NoResource, initialized |-> FALSE,
     open |-> {}, next_sid |-> 1]

\* A returned manager call: which, called by whom, whether it raised, what
\* it returned, the connections it attempted and what each endpoint did,
\* whether a session close raised during it, and whether the manager was
\* initialized when it was called.
Call(op, by, raised, ret, res, attempts, outs, close_raised, was_init) ==
    [op |-> op, by |-> by, raised |-> raised, ret |-> ret, res |-> res,
     attempts |-> attempts, outs |-> outs, close_raised |-> close_raised,
     was_init |-> was_init]

NoCall == Call("none", "", FALSE, "none", NoResource, 0, <<>>, FALSE, FALSE)

Init ==
    /\ endpoints \in EndpointLists
    /\ exit_stack = NewMgr.exit_stack
    /\ resource = NewMgr.resource
    /\ initialized = NewMgr.initialized
    /\ open_sessions = NewMgr.open
    /\ next_sid = NewMgr.next_sid
    /\ last = NoCall
    /\ d = IdleFrame
    /\ fm = NewTaskMgr
    /\ tasks = [t \in Tasks |-> IdleTask]
    /\ turn = IdleTurn
    /\ pg = NewPoolModule
    /\ http = NewWorker

SetMgr(s) ==
    /\ exit_stack' = s.exit_stack
    /\ resource' = s.resource
    /\ initialized' = s.initialized
    /\ open_sessions' = s.open
    /\ next_sid' = s.next_sid

\* What every endpoint does during one pass of initialize()'s loop.
EndpointOutcomes == [1..Len(endpoints) -> ConnectOutcomes]

\* The sessions of the current exit stack whose close raises.
CloseFailures == SUBSET Range(exit_stack.ctx)

\* Session identities left for one more pass over the endpoints.
SidsLeft(passes) == next_sid + passes * Len(endpoints) - 1 <= MaxSid

BoolRet(b) == IF b THEN "true" ELSE "false"

\* The owner task calls initialize().
MgrInitialize ==
    /\ d.pc = "idle"
    /\ initialized \/ SidsLeft(1)
    /\ \E outs \in EndpointOutcomes :
        LET r == initialize(Mgr, endpoints, outs)
        IN  /\ SetMgr(r.state)
            /\ last' = Call("initialize", "owner", r.raised, "resource", r.ret, r.attempts,
                            IF r.attempts = 0 THEN <<>> ELSE outs, FALSE, initialized)
    /\ UNCHANGED <<pg, http, turn, fm, tasks, endpoints, d>>

\* The owner task calls cleanup().
MgrCleanup ==
    /\ d.pc = "idle"
    /\ \E fails \in CloseFailures :
        LET r == cleanup(Mgr, fails)
        IN  /\ SetMgr(r.state)
            /\ last' = Call("cleanup", "owner", r.raised, "none", NoResource, 0, <<>>,
                            r.close_raised, initialized)
    /\ UNCHANGED <<pg, http, turn, fm, tasks, endpoints, d>>

\* The owner task calls reconnect().
MgrReconnect ==
    /\ d.pc = "idle"
    /\ SidsLeft(1)
    /\ \E fails \in CloseFailures, outs \in EndpointOutcomes :
        LET r == reconnect(Mgr, endpoints, fails, outs)
        IN  /\ SetMgr(r.state)
            /\ last' = Call("reconnect", "owner", r.raised, BoolRet(r.ret), NoResource,
                            r.attempts, outs, r.close_raised, initialized)
    /\ UNCHANGED <<pg, http, turn, fm, tasks, endpoints, d>>

\* The owner task calls get_resource().
MgrGetResource ==
    /\ d.pc = "idle"
    /\ LET r == get_resource(Mgr)
       IN  last' = Call("get_resource", "owner", r.raised,
                        IF r.raised THEN "none" ELSE "resource", r.ret, 0, <<>>,
                        FALSE, initialized)
    /\ UNCHANGED <<pg, http, turn, fm, tasks, endpoints, exit_stack, resource, initialized, open_sessions, next_sid, d>>

\* handle_mcp_tool_call is called: the attempt loop is entered.
DispatchStart ==
    /\ d.pc = "idle"
    /\ \E mr \in 0..MaxRetries, hook \in BOOLEAN, tool_call \in ToolCalls :
        /\ SidsLeft(mr)
        /\ d' = [IdleFrame EXCEPT !.pc = "invoke", !.max_retries = mr, !.has_hook = hook,
                                  !.tool_name = tool_call.name,
                                  !.tool_call_id = tool_call.id]
    /\ UNCHANGED <<pg, http, turn, fm, tasks, endpoints, exit_stack, resource, initialized, open_sessions, next_sid, last>>

\* await tool_fn.ainvoke(tool_call["args"]) completes.
DispatchInvoke ==
    /\ d.pc = "invoke"
    /\ \E out \in ToolOutcomes :
        LET trace == Append(d.trace, Event("invoke", out))
            f == [d EXCEPT !.tool_error =
                      IF out = "ok" THEN @ ELSE [kind |-> out, k |-> Count(trace, "invoke")]]
        IN  d' = Advance(f, on_tool_outcome(out, d.attempt, d.max_retries), trace)
    /\ UNCHANGED <<pg, http, turn, fm, tasks, endpoints, exit_stack, resource, initialized, open_sessions, next_sid, last>>

\* await mcp_manager.reconnect() returns True or False.
DispatchReconnect ==
    /\ d.pc = "reconnect"
    /\ \E fails \in CloseFailures, outs \in EndpointOutcomes :
        LET r == reconnect(Mgr, endpoints, fails, outs)
            rc == IF r.raised THEN "raise" ELSE BoolRet(r.ret)
        IN  /\ SetMgr(r.state)
            /\ last' = Call("reconnect", "dispatch", r.raised, BoolRet(r.ret), NoResource,
                            r.attempts, outs, r.close_raised, initialized)
            /\ d' = Advance(d, on_reconnect_outcome(rc, d.has_hook),
                            Append(d.trace, Event("reconnect", rc)))
    /\ UNCHANGED <<pg, http, turn, fm, tasks, endpoints>>

\* What the call mcp_manager.reconnect() can do as the dispatcher sees it:
\* return True, return False, or raise into the inner try.
ReconnectOutcomes == {"true", "false", "raise"}

\* await mcp_manager.reconnect() completes, the manager being any object
\* with that interface.
DispatchReconnectResult ==
    /\ d.pc = "reconnect"
    /\ \E rc \in ReconnectOutcomes :
        d' = Advance(d, on_reconnect_outcome(rc, d.has_hook),
                     Append(d.trace, Event("reconnect", rc)))
    /\ UNCHANGED <<pg, http, turn, fm, tasks, endpoints, exit_stack, resource, initialized, open_sessions, next_sid, last>>

\* await on_reconnect() completes.
DispatchHook ==
    /\ d.pc = "hook"
    /\ \E out \in {"ok", "raise"} :
        d' = Advance(d, on_hook_outcome(out), Append(d.trace, Event("hook", out)))
    /\ UNCHANGED <<pg, http, turn, fm, tasks, endpoints, exit_stack, resource, initialized, open_sessions, next_sid, last>>

\* The caller has the ToolMessage; the frame is gone.
DispatchReturn ==
    /\ d.pc = "done"
    /\ d' = IdleFrame
    /\ UNCHANGED <<pg, http, turn, fm, tasks, endpoints, exit_stack, resource, initialized, open_sessions, next_sid, last>>

\* The manager and the dispatcher of one process: the dispatcher reconnects
\* the module's MCPSessionManager.
Next ==
    \/ MgrInitialize
    \/ MgrCleanup
    \/ MgrReconnect
    \/ MgrGetResource
    \/ DispatchStart
    \/ DispatchInvoke
    \/ DispatchReconnect
    \/ DispatchHook
    \/ DispatchReturn

Spec == Init /\ [][Next]_vars

\* One step of the attempt loop, the manager behind reconnect() left open.
DispatchStep ==
    \/ DispatchInvoke
    \/ DispatchReconnectResult
    \/ DispatchHook

\* handle_mcp_tool_call alone: every outcome of tool_fn.ainvoke, of
\* mcp_manager.reconnect() and of on_reconnect().
DispatchNext ==
    \/ DispatchStart
    \/ DispatchStep
    \/ DispatchReturn

DispatchSpec == Init /\ [][DispatchNext]_vars

\* ------------------------------------------------------------ tasks: steps
\* The owner-task view of the manager and the single dispatch frame.
owner == <<exit_stack, resource, initialized, open_sessions, next_sid, last, d>>

World(t) == [m |-> fm, f |-> tasks[t]]

Begin(t, op) == [m |-> fm, f |-> [IdleTask EXCEPT !.op = op]]

SetTask(t, w) ==
    /\ fm' = w.m
    /\ tasks' = [tasks EXCEPT ![t] = w.f]
    /\ UNCHANGED <<endpoints, owner, turn, pg, http>>

\* Exit stacks and correlation ids left for `passes` more passes over the
\* endpoints.
TaskIdsLeft(passes) ==
    /\ Len(fm.stacks) + passes <= MaxStacks
    /\ Len(fm.conns) + passes * Len(endpoints) <= MaxSid

\* Task t calls initialize().
TaskInitialize(t) ==
    /\ tasks[t].pc = "idle"
    /\ fm.initialized \/ TaskIdsLeft(1)
    /\ SetTask(t, initialize_enter(Begin(t, "initialize"), endpoints))

\* Task t calls cleanup().
TaskCleanup(t) ==
    /\ tasks[t].pc = "idle"
    /\ SetTask(t, cleanup_enter(Begin(t, "cleanup"), endpoints))

\* Task t calls reconnect().
TaskReconnect(t) ==
    /\ tasks[t].pc = "idle"
    /\ TaskIdsLeft(1)
    /\ SetTask(t, reconnect_enter(Begin(t, "reconnect"), endpoints))

\* Task t calls handle_mcp_tool_call with a tool of the cached Resource
\* (the first tool of one of its sessions: the tools of one session fare
\* alike); the first tool_fn.ainvoke is awaited.
TaskDispatch(t) ==
    /\ tasks[t].pc = "idle"
    /\ fm.initialized
    /\ \E session \in Range(fm.resource.sessions), mr \in 0..MaxRetries, hook \in BOOLEAN :
        /\ TaskIdsLeft(mr)
        /\ SetTask(t, [m |-> fm,
                       f |-> [IdleTask EXCEPT !.op = "dispatch", !.pc = "invoke",
                                              !.tool_fn = load_mcp_tools(session)[1],
                                              !.max_retries = mr,
                                              !.has_hook = hook]])

\* The exit of a session context completes: the session is closed and the
\* close logged.  Whether the exit raised makes no difference to what
\* follows: __aexit__ goes on with the contexts left and cleanup() catches
\* what it raises at the end.
TaskCloseDone(t) ==
    /\ tasks[t].pc = "closing"
    /\ LET w == World(t)
       IN  SetTask(t, aexit_next([w EXCEPT !.m = exit_context(w.m, w.f.cid)], endpoints))

\* enter_async_context(mcp_sse_client(...)) completes: the connection or
\* the handshake failed and the host is skipped, or the session is open and
\* its exit is pushed on the stack the task read; load_mcp_tools is awaited.
TaskConnectDone(t) ==
    /\ tasks[t].pc = "connecting"
    /\ \E out \in {"connect_fail", "ok"} :
        LET w == World(t)
            c == w.f.cid
            v == [w EXCEPT !.m.conns[c].events = @ \o mcp_sse_client_entered(out)]
        IN  IF out = "ok"
            THEN SetTask(t, [v EXCEPT !.m.conns[c].state = "open",
                                      !.m.stacks[w.f.stack] = Append(@, c),
                                      !.f.pc = "loading"])
            ELSE SetTask(t, initialize_loop(
                    [v EXCEPT !.m.conns[c].state = "failed", !.f.i = @ + 1], endpoints))

\* load_mcp_tools(session) completes: the tools and the session are
\* recorded, or the host is skipped with its session left on the stack.
TaskLoadDone(t) ==
    /\ tasks[t].pc = "loading"
    /\ \E out \in {"load_fail", "ok"} :
        LET w == World(t)
            session == [sid |-> w.f.cid, host |-> w.m.conns[w.f.cid].host]
            v == [w EXCEPT !.f.i = @ + 1]
        IN  IF out = "ok"
            THEN SetTask(t, initialize_loop(
                    [v EXCEPT !.f.tools = @ \o load_mcp_tools(session),
                              !.f.sessions = Append(@, session)], endpoints))
            ELSE SetTask(t, initialize_loop(v, endpoints))

\* tool_fn.ainvoke completes.
TaskInvokeDone(t) ==
    /\ tasks[t].pc = "invoke"
    /\ \E out \in InvokeOutcomes(fm, tasks[t].tool_fn) :
        LET w == World(t)
            to == on_tool_outcome(out, w.f.attempt, w.f.max_retries)
        IN  IF to = "reconnect"
            THEN SetTask(t, reconnect_enter(w, endpoints))
            ELSE SetTask(t, Return(w))

\* on_reconnect() completes.
TaskHookDone(t) ==
    /\ tasks[t].pc = "hook"
    /\ \E out \in {"ok", "raise"} :
        LET w == World(t)
        IN  IF on_hook_outcome(out) = "continue"
            THEN SetTask(t, dispatch_continue(w))
            ELSE SetTask(t, Return(w))

TaskStep(t) ==
    \/ TaskInitialize(t)
    \/ TaskCleanup(t)
    \/ TaskReconnect(t)
    \/ TaskDispatch(t)
    \/ TaskCloseDone(t)
    \/ TaskConnectDone(t)
    \/ TaskLoadDone(t)
    \/ TaskInvokeDone(t)
    \/ TaskHookDone(t)

\* One task drives the manager and dispatches tool calls, await by await.
SeqNext == TaskStep(1)

SeqSpec == Init /\ [][SeqNext]_vars

\* Two tasks share the manager and interleave at their awaits.
ConcNext == \E t \in Tasks : TaskStep(t)

ConcSpec == Init /\ [][ConcNext]_vars

\* ------------------------------------------------------------ agent graph: steps
NoTurn == <<endpoints, owner, fm, tasks, pg, http>>

\* get_response is called: graph.ainvoke starts at the chat node.
GetResponse ==
    /\ turn.pc = "idle"
    /\ turn' = [IdleTurn EXCEPT !.pc = "chat", !.messages = <<HumanMessage>>]
    /\ UNCHANGED NoTurn

\* The chat node runs: the LLM call raises (chat_node raises, graph.ainvoke
\* raises into get_response), or it answers, with or without tool calls.
ChatNode ==
    /\ turn.pc = "chat"
    /\ \/ turn' = get_response_failed(turn)
       \/ \E tool_calls \in ToolCallLists :
            /\ turn.rounds < MaxRounds \/ tool_calls = <<>>
            /\ turn' = chat_node(turn, AIMessage(tool_calls))
    /\ UNCHANGED NoTurn

\* The tool_call node awaits the next tool's ainvoke: it returns, or it
\* raises; nothing in tool_call_node catches, so graph.ainvoke raises into
\* get_response.
ToolCallNode ==
    /\ turn.pc = "tool_call"
    /\ LET tool_calls == turn.messages[Len(turn.messages)].tool_calls
           tool_call == tool_calls[Len(turn.outputs) + 1]
       IN  \E out \in ToolOutcomes :
            turn' = IF out = "ok"
                    THEN tool_call_node(turn, tool_call)
                    ELSE [get_response_failed(turn) EXCEPT !.failed = tool_call.id]
    /\ UNCHANGED NoTurn

\* The caller has what get_response returned.
TurnDone ==
    /\ turn.pc = "returned"
    /\ turn' = IdleTurn
    /\ UNCHANGED NoTurn

TurnNext ==
    \/ GetResponse
    \/ ChatNode
    \/ ToolCallNode
    \/ TurnDone

TurnSpec == Init /\ [][TurnNext]_vars

\* ------------------------------------------------------------ claims: dispatcher
Invocations(f) == Count(f.trace, "invoke")
Reconnects(f) == Count(f.trace, "reconnect")

\* The events of kind ev all had one of the outcomes in outs.
AllOutcomes(trace, ev, outs) ==
    \A i \in 1..Len(trace) : trace[i].ev = ev => trace[i].out \in outs

IsSuccess(f) == f.pc = "done" /\ ~f.result.content.error
IsFailure(f) == f.pc = "done" /\ f.result.content.error

\* C1: with max_retries = 1, when the first invocation raised the
\* transport-closed error, reconnect() returned true (a hook, if given,
\* returned) and the second invocation succeeded, the call returns Success
\* with the second invocation's content; the tool was invoked exactly twice
\* and reconnect() ran exactly once, between the two invocations.
C1_RetryOnceSucceeds ==
    ( /\ d.pc = "done"
      /\ d.max_retries = 1
      /\ d.trace[1] = Event("invoke", "closed")
      /\ AllOutcomes(d.trace, "reconnect", {"true"})
      /\ AllOutcomes(d.trace, "hook", {"ok"})
      /\ \A i \in 2..Len(d.trace) : d.trace[i].ev = "invoke" => d.trace[i].out = "ok" )
    => /\ IsSuccess(d)
       /\ d.result = ToolMessage(tool_result(2), d.tool_name, d.tool_call_id)
       /\ Invocations(d) = 2
       /\ Reconnects(d) = 1
       /\ d.trace[2] = Event("reconnect", "true")
       /\ d.trace[Len(d.trace)] = Event("invoke", "ok")

C1_Witness ==
    /\ d.pc = "done"
    /\ d.max_retries = 1
    /\ d.trace = <<Event("invoke", "closed"), Event("reconnect", "true"), Event("invoke", "ok")>>
    /\ d.result.content = tool_result(2)

\* C2: whenever reconnect() returned false after a transport-closed failure,
\* that is the last thing the call did: no further invocation, no hook call,
\* and the result is Failure, for every max_retries >= 1.
C2_ReconnectFalseFails ==
    \A i \in 1..Len(d.trace) :
        d.trace[i] = Event("reconnect", "false")
        => /\ i = Len(d.trace)
           /\ IsFailure(d)
           /\ d.trace[i - 1] = Event("invoke", "closed")
           /\ d.max_retries >= 1

C2_Witness ==
    /\ IsFailure(d)
    /\ d.has_hook
    /\ d.max_retries = 2
    /\ d.trace = <<Event("invoke", "closed"), Event("reconnect", "false")>>

\* C3: with max_retries = 0 reconnect() is never called, and an invocation
\* that raises, whatever the error, is the only one: the call returns Failure
\* right after it.
C3_NoRetriesSingleAttempt ==
    (d.max_retries = 0 /\ d.pc # "idle")
    => /\ Reconnects(d) = 0
       /\ Invocations(d) <= 1
       /\ (Len(d.trace) >= 1 /\ d.trace[1].out \in {"closed", "other"})
            => (IsFailure(d) /\ Len(d.trace) = 1)

C3_Witness ==
    /\ d.max_retries = 0
    /\ IsFailure(d)
    /\ d.trace = <<Event("invoke", "closed")>>

\* C4: the call never ends by raising: once it has ended it holds a
\* ToolMessage for the request, Success or Failure, and a reconnect() that
\* raised ended it with Failure.
C4_NeverPropagates ==
    /\ d.pc \in {"idle", "invoke", "reconnect", "hook", "done"}
    /\ d.pc = "done" =>
        /\ d.result.name = d.tool_name
        /\ d.result.tool_call_id = d.tool_call_id
        /\ \/ d.result.content = tool_result(Invocations(d))
           \/ d.result.content = error_msg(d.tool_name, d.tool_error)
    /\ \A i \in 1..Len(d.trace) :
        d.trace[i] = Event("reconnect", "raise") => (i = Len(d.trace) /\ IsFailure(d))

C4_Witness ==
    /\ IsFailure(d)
    /\ d.trace[Len(d.trace)] = Event("reconnect", "raise")

\* C5: an invocation that raised an error other than transport-closed is the
\* last thing the call did, on every attempt and for every max_retries: no
\* reconnect(), no further invocation, result Failure.
C5_OnlyClosedRetried ==
    \A i \in 1..Len(d.trace) :
        d.trace[i] = Event("invoke", "other") => (i = Len(d.trace) /\ IsFailure(d))

C5_Witness ==
    /\ IsFailure(d)
    /\ d.max_retries = 2
    /\ d.trace = <<Event("invoke", "closed"), Event("reconnect", "true"),
                   Event("invoke", "other")>>

\* C6: one call invokes the tool at most max_retries + 1 times and
\* reconnects at most max_retries times; an invocation other than the first
\* starts only after the one before raised transport-closed and the
\* reconnect() after it returned true (and the hook, if any, returned); a
\* call that has not ended can take a step and takes at most
\* 3 * max_retries + 1 of them; and when every invocation raised
\* transport-closed and every reconnect() returned true, the tool was
\* invoked exactly max_retries + 1 times and the result is Failure.
C6_BoundedSequentialRetry ==
    /\ Invocations(d) <= d.max_retries + 1
    /\ Reconnects(d) <= d.max_retries
    /\ \A i \in 2..Len(d.trace) :
        d.trace[i].ev = "invoke" =>
            LET r == IF d.trace[i - 1].ev = "hook" THEN i - 2 ELSE i - 1
            IN  /\ d.trace[i - 1].ev = "hook" => d.trace[i - 1].out = "ok"
                /\ r >= 2
                /\ d.trace[r] = Event("reconnect", "true")
                /\ d.trace[r - 1] = Event("invoke", "closed")
    /\ d.pc = "invoke" =>
        /\ d.attempt = Invocations(d)
        /\ AllOutcomes(d.trace, "invoke", {"closed"})
    /\ d.pc \in {"invoke", "reconnect", "hook"} => ENABLED DispatchStep
    /\ Len(d.trace) <= 3 * d.max_retries + 1
    /\ ( /\ d.pc = "done"
         /\ AllOutcomes(d.trace, "invoke", {"closed"})
         /\ AllOutcomes(d.trace, "reconnect", {"true"})
         /\ AllOutcomes(d.trace, "hook", {"ok"}) )
       => (Invocations(d) = d.max_retries + 1 /\ IsFailure(d))

C6_Witness ==
    /\ IsFailure(d)
    /\ d.max_retries = MaxRetries
    /\ Invocations(d) = MaxRetries + 1
    /\ Reconnects(d) = MaxRetries
    /\ AllOutcomes(d.trace, "invoke", {"closed"})

\* ------------------------------------------------------------ claims: manager
\* The hosts of the endpoints that connected and loaded their tools, in the
\* order of the configuration.
RECURSIVE OkHosts(_, _, _)
OkHosts(hosts, outs, i) ==
    IF i > Len(hosts) THEN <<>>
    ELSE (IF outs[i] = "ok" THEN <<hosts[i]>> ELSE <<>>) \o OkHosts(hosts, outs, i + 1)

\* The tool lists of the sessions, one after the other.
RECURSIVE ToolLists(_, _)
ToolLists(sessions, i) ==
    IF i > Len(sessions) THEN <<>>
    ELSE [k \in 1..NumTools(sessions[i].host) |->
             [host |-> sessions[i].host, idx |-> k, sid |-> sessions[i].sid]]
         \o ToolLists(sessions, i + 1)

SomeEndpointFailed(outs) == \E i \in 1..Len(outs) : outs[i] # "ok"

MgrFields == <<exit_stack, resource, initialized, open_sessions, next_sid>>

\* C7: initialize() called on an initialized manager returns the cached
\* Resource itself, attempts no connection and changes no field of the
\* manager nor any session.
C7_InitializeIdempotent ==
    [][(initialized /\ MgrInitialize)
        => /\ last'.op = "initialize"
           /\ ~last'.raised
           /\ last'.res = resource
           /\ last'.attempts = 0
           /\ MgrFields' = MgrFields]_vars

C7_Witness ==
    /\ last.op = "initialize"
    /\ last.was_init
    /\ last.attempts = 0
    /\ last.res = resource
    /\ Len(resource.sessions) = 2
    /\ initialized

\* C8: initialize() on an uninitialized manager, whatever subset of the
\* endpoints fails (to connect or to load its tools), does not raise, ends
\* initialized and returns the cached Resource; its sessions are one new
\* session per endpoint that did not fail, in the order of the
\* configuration, and its tools are the tool lists of those sessions, in
\* that order.
C8_InitializeToleratesFailures ==
    (last.op = "initialize" /\ ~last.was_init)
    => /\ ~last.raised
       /\ initialized
       /\ resource.some
       /\ last.res = resource
       /\ last.attempts = Len(endpoints)
       /\ [i \in 1..Len(resource.sessions) |-> resource.sessions[i].host]
            = OkHosts(endpoints, last.outs, 1)
       /\ Len(resource.sessions)
            = Cardinality({i \in 1..Len(endpoints) : last.outs[i] = "ok"})
       /\ \A i, j \in 1..Len(resource.sessions) :
            i # j => resource.sessions[i].sid # resource.sessions[j].sid
       /\ resource.tools = ToolLists(resource.sessions, 1)

\* The spec's scenario: "a" (host 2, two tools) connects, "b" times out.
C8_Witness ==
    /\ last.op = "initialize"
    /\ ~last.was_init
    /\ endpoints = <<2, 1>>
    /\ last.outs = <<"ok", "connect_fail">>
    /\ Len(resource.tools) = 2
    /\ Len(resource.sessions) = 1

\* C9: after reconnect() has returned, from whatever state it was called in,
\* either it returned true and get_resource() returns the Resource, or it
\* returned false and get_resource() raises.
C9_ReconnectNotHalfInitialized ==
    last.op = "reconnect"
    => \/ (last.ret = "true" /\ ~get_resource(Mgr).raised)
       \/ (last.ret = "false" /\ get_resource(Mgr).raised)

C9_Witness ==
    /\ last.op = "reconnect"
    /\ last.was_init
    /\ last.close_raised
    /\ last.ret = "true"
    /\ ~get_resource(Mgr).raised
    /\ get_resource(Mgr).ret = resource

\* C10 as stated: whenever an exception was raised during the cleanup step
\* (a session close raised) or the re-initialize step (an endpoint failed)
\* of reconnect(), reconnect() returned false.
C10_AnyExceptionGivesFalse ==
    (last.op = "reconnect" /\ (last.close_raised \/ SomeEndpointFailed(last.outs)))
    => (~last.raised /\ last.ret = "false")

\* C10 amended: reconnect() never raises, from an uninitialized or an
\* initialized manager; an exception raised by a session close in its
\* cleanup step or by an endpoint in its re-initialize step is handled
\* inside cleanup() and initialize(), so reconnect() returns true after it.
C10_ReconnectNeverRaises ==
    last.op = "reconnect"
    => /\ ~last.raised
       /\ last.ret \in {"true", "false"}
       /\ (last.close_raised \/ SomeEndpointFailed(last.outs)) => last.ret = "true"

C10_Witness ==
    /\ last.op = "reconnect"
    /\ last.was_init
    /\ last.close_raised
    /\ SomeEndpointFailed(last.outs)
    /\ ~last.raised
    /\ last.ret = "true"

\* C11: cleanup() returns without raising and leaves the manager
\* uninitialized (no exit stack, no cached Resource, flag false) from
\* whatever state it was called in; every session of the exit stack it held
\* has been closed, whichever of their closes raised.
C11_CleanupAlwaysResets ==
    last.op = "cleanup"
    => /\ ~last.raised
       /\ exit_stack = NoStack
       /\ resource = NoResource
       /\ ~initialized
       /\ open_sessions = {}

C11_Witness ==
    /\ last.op = "cleanup"
    /\ last.was_init
    /\ last.close_raised
    /\ ~last.raised
    /\ next_sid >= 3
    /\ exit_stack = NoStack
    /\ resource = NoResource
    /\ ~initialized
    /\ open_sessions = {}

\* C12: get_resource() raises exactly when the manager is not initialized,
\* otherwise it returns the cached Resource; either way no field of the
\* manager and no session changes.
C12_GetResourceContract ==
    [][MgrGetResource
        => /\ last'.op = "get_resource"
           /\ last'.raised <=> ~initialized
           /\ ~last'.raised => (last'.res = resource /\ resource.some)
           /\ MgrFields' = MgrFields]_vars

\* get_resource() raising after a cleanup() of an initialized manager.
C12_Witness ==
    /\ last.op = "get_resource"
    /\ last.raised
    /\ ~last.was_init
    /\ next_sid > 1
    /\ exit_stack = NoStack

\* C13: in the cached Resource every tool is backed by exactly one member
\* of sessions (the session of the tool's host it was loaded from), sessions
\* has at most one entry per configured endpoint, and the initialize() or
\* reconnect() that built it attempted each endpoint at most once.
C13_ResourceInvariant ==
    /\ resource.some =>
        /\ \A i \in 1..Len(resource.tools) :
            /\ Cardinality({j \in 1..Len(resource.sessions) :
                              resource.sessions[j].sid = resource.tools[i].sid}) = 1
            /\ \E j \in 1..Len(resource.sessions) :
                /\ resource.sessions[j].sid = resource.tools[i].sid
                /\ resource.sessions[j].host = resource.tools[i].host
        /\ Len(resource.sessions) <= Len(endpoints)
    /\ last.op \in {"initialize", "reconnect"} => last.attempts <= Len(endpoints)

C13_Witness ==
    /\ last.op = "reconnect"
    /\ last.attempts = 2
    /\ resource.some
    /\ Len(resource.sessions) = 2
    /\ Len(resource.tools) = 3

\* C14: when the cached Resource is replaced or dropped, every session of
\* the old one is closed and the new one shares no session with it; a
\* session that opens is a new object, so a closed session stays closed;
\* every open session is held by the current exit stack; and a reconnect()
\* that returned true closed every session that was open and cached a
\* Resource whose sessions were all created by it and are open.
C14_OneResourceLive ==
    [][/\ (resource.some /\ resource' # resource)
            => /\ Range(resource.sessions) \cap open_sessions' = {}
               /\ Range(resource.sessions) \cap Range(resource'.sessions) = {}
       /\ \A s \in open_sessions' \ open_sessions : s.sid >= next_sid
       /\ \A s \in open_sessions' : s.sid < next_sid' /\ s \in Range(exit_stack'.ctx)
       /\ Range(resource'.sessions) \subseteq open_sessions'
       /\ ((MgrReconnect \/ DispatchReconnect) /\ last'.ret = "true")
            => /\ resource'.some
               /\ open_sessions \cap open_sessions' = {}
               /\ \A s \in Range(resource'.sessions) : s.sid >= next_sid]_vars

\* reconnect() of an initialized manager returned true: session 1 is closed
\* and the Resource holds only later sessions.
C14_Witness ==
    /\ last.op = "reconnect"
    /\ last.was_init
    /\ last.ret = "true"
    /\ Len(resource.sessions) >= 1
    /\ \A s \in Range(resource.sessions) : s.sid >= 2
    /\ open_sessions = Range(resource.sessions)

\* ------------------------------------------------------------ claims: dispatcher results
\* The position in the trace of the last invocation of the tool.
LastInvoke(trace) ==
    CHOOSE i \in 1..Len(trace) :
        /\ trace[i].ev = "invoke"
        /\ \A j \in (i + 1)..Len(trace) : trace[j].ev # "invoke"

\* The invocations among the first n events of the trace.
InvocationsBefore(trace, n) == Count(SubSeq(trace, 1, n), "invoke")

\* C17: the ToolMessage a call ends with carries the tool_name and the call
\* id it was called with; a Success carries the content of the last
\* invocation; a Failure names the tool and the error the last invocation
\* raised, and has the connection note exactly when that error is the
\* transport-closed one.
C17_ResultTagged ==
    d.pc = "done" =>
        /\ d.result.name = d.tool_name
        /\ d.result.tool_call_id = d.tool_call_id
        /\ \E tool_call \in ToolCalls :
            d.result.name = tool_call.name /\ d.result.tool_call_id = tool_call.id
        /\ IsSuccess(d) =>
            /\ d.trace[Len(d.trace)] = Event("invoke", "ok")
            /\ d.result.content = tool_result(Invocations(d))
        /\ IsFailure(d) =>
            LET i == LastInvoke(d.trace)
            IN  /\ d.trace[i].out \in {"closed", "other"}
                /\ d.result.content.tool = d.tool_name
                /\ d.result.content.text = InvocationsBefore(d.trace, i)
                /\ d.result.content.note <=> d.trace[i].out = "closed"

\* A retried call whose second invocation raised another error: the Failure
\* carries that error, without the connection note.
C17_Witness ==
    /\ IsFailure(d)
    /\ d.tool_call_id = "call_b"
    /\ d.result = ToolMessage(error_msg("sub", [kind |-> "other", k |-> 2]), "sub", "call_b")
    /\ ~d.result.content.note
    /\ d.trace[1] = Event("invoke", "closed")

\* C20: a call to the hook is preceded, immediately, by a reconnect() that
\* returned true, itself preceded by an invocation that raised
\* transport-closed while attempts remained; when a hook was given, a
\* reconnect() that returned true is followed immediately by one call to the
\* hook (pending while the frame is at the hook), so the hook calls are as
\* many as the reconnect()s that returned true and each invocation after the
\* first follows a hook call; without a hook there is no hook call.
C20_HookOrdering ==
    /\ \A i \in 1..Len(d.trace) :
        d.trace[i].ev = "hook" =>
            /\ d.has_hook
            /\ i >= 3
            /\ d.trace[i - 1] = Event("reconnect", "true")
            /\ d.trace[i - 2] = Event("invoke", "closed")
            /\ InvocationsBefore(d.trace, i) <= d.max_retries
    /\ d.has_hook =>
        /\ \A i \in 1..Len(d.trace) :
            d.trace[i] = Event("reconnect", "true") =>
                IF i = Len(d.trace) THEN d.pc = "hook" ELSE d.trace[i + 1].ev = "hook"
        /\ \A i \in 2..Len(d.trace) :
            d.trace[i].ev = "invoke" => d.trace[i - 1] = Event("hook", "ok")
        /\ Count(d.trace, "hook") + (IF d.pc = "hook" THEN 1 ELSE 0)
            = Cardinality({i \in 1..Len(d.trace) : d.trace[i] = Event("reconnect", "true")})
    /\ d.pc = "hook" => (d.has_hook /\ d.trace[Len(d.trace)] = Event("reconnect", "true"))
    /\ ~d.has_hook => Count(d.trace, "hook") = 0

C20_Witness ==
    /\ d.has_hook
    /\ d.pc = "done"
    /\ d.max_retries = 2
    /\ Count(d.trace, "hook") = 2
    /\ Reconnects(d) = 2
    /\ Invocations(d) = 3

\* ------------------------------------------------------------ claims: tasks
ConnState(c) == fm.conns[c].state

\* Task t is inside a reconnect() called by handle_mcp_tool_call.
Reconnecting(t) == tasks[t].op = "dispatch" /\ tasks[t].in_reconnect

\* C15: nothing orders a reconnect() against the tool calls of another
\* task.  When a task resumes out of an invocation into reconnect(), or out
\* of the exit of a session into the next one, the session it has taken off
\* the stack is being closed, the one whose exit completed is closed, and
\* the frame of the other task is as it was: an invocation it has in flight
\* through a handle bound to that session stays in flight on it.
C15_ReconnectNotSerialized ==
    [][\A t \in Tasks :
        /\ (tasks[t].pc = "closing" /\ tasks'[t] # tasks[t])
            => /\ fm'.conns[tasks[t].cid].state = "closed"
               /\ \A u \in Tasks \ {t} : tasks'[u] = tasks[u]
        /\ (tasks[t].pc \in {"invoke", "closing"} /\ tasks'[t] # tasks[t]
                /\ tasks'[t].pc = "closing")
            => /\ fm'.conns[tasks'[t].cid].state = "closing"
               /\ \A u \in Tasks \ {t} : tasks'[u] = tasks[u]]_vars

\* Both tasks dispatched a call on the same session; the reconnect() of one
\* has closed it and is connecting anew while the first invocation of the
\* other is still in flight on it.
C15_Witness ==
    \E t, u \in Tasks :
        /\ t # u
        /\ tasks[u].op = "dispatch"
        /\ tasks[u].pc = "invoke"
        /\ tasks[u].attempt = 0
        /\ Reconnecting(t)
        /\ tasks[t].attempt = 0
        /\ tasks[t].pc = "connecting"
        /\ tasks[t].tool_fn = tasks[u].tool_fn
        /\ ConnState(tasks[u].tool_fn.sid) = "closed"

\* The log of every connection attempt, and where its session is held.
LogWellFormed ==
    \A c \in 1..Len(fm.conns) :
        LET e == fm.conns[c].events
        IN  /\ ConnState(c) = "connecting" =>
                /\ e = <<"mcp_connection_initiated">>
                /\ \E t \in Tasks : tasks[t].pc = "connecting" /\ tasks[t].cid = c
            /\ ConnState(c) = "failed" =>
                e = <<"mcp_connection_initiated", "mcp_session_closed">>
            /\ ConnState(c) \in {"open", "closing"} =>
                e = <<"mcp_connection_initiated", "mcp_session_initialized">>
            /\ ConnState(c) = "closed" =>
                e = <<"mcp_connection_initiated", "mcp_session_initialized",
                      "mcp_session_closed">>
            /\ ConnState(c) = "closing" =>
                \E t \in Tasks : tasks[t].pc = "closing" /\ tasks[t].cid = c
            /\ ConnState(c) = "open" =>
                \/ fm.exit_stack # 0 /\ c \in Range(fm.stacks[fm.exit_stack])
                \/ \E t \in Tasks :
                    tasks[t].pc = "closing" /\ c \in Range(fm.stacks[tasks[t].stack])

AllTornDown == \A c \in 1..Len(fm.conns) : ConnState(c) \in {"failed", "closed"}

\* C18: with one task driving the manager, the events logged under one
\* correlation id are mcp_connection_initiated, then mcp_session_initialized
\* if the connection and the handshake succeeded, then one
\* mcp_session_closed: at once when they failed, when the context is exited
\* otherwise; an open session is held by the current exit stack (or by the
\* stack being unwound), and when cleanup() returns every attempt has
\* logged its close and no session is open.
C18_TeardownOnEveryPath ==
    [][/\ LogWellFormed'
       /\ ( /\ tasks'[1].pc = "idle"
            /\ \/ TaskCleanup(1)
               \/ tasks[1].op = "cleanup" /\ TaskCloseDone(1) )
          => (AllTornDown' /\ OpenConns(fm') = {})]_vars

\* cleanup() has returned after an endpoint failed to connect and another
\* one was connected.
C18_Witness ==
    /\ tasks[1].pc = "idle"
    /\ fm.exit_stack = 0
    /\ ~fm.initialized
    /\ AllTornDown
    /\ \E c \in 1..Len(fm.conns) : ConnState(c) = "failed"
    /\ \E c \in 1..Len(fm.conns) : ConnState(c) = "closed"

\* C19 as stated: an invocation awaited by handle_mcp_tool_call goes through
\* a handle whose session is open.
C19_InvokesOpenSession ==
    \A t \in Tasks :
        tasks[t].pc = "invoke" => ConnState(tasks[t].tool_fn.sid) = "open"

\* ------------------------------------------------------------ claims: agent graph
\* C16 as stated: when the invocation of a tool call raised in the tool_call
\* node, the turn does not end without a response: it goes on, and when
\* get_response returns it returns the messages, among them an error
\* ToolMessage for that call id.
C16_FailedToolNeverAborts ==
    turn.failed # ""
    => /\ turn.response = "messages" \/ turn.pc # "returned"
       /\ turn.pc = "returned" =>
            \E i \in 1..Len(turn.messages) :
                /\ turn.messages[i].role = "tool"
                /\ turn.messages[i].tool.tool_call_id = turn.failed
                /\ turn.messages[i].tool.content.error

\* ------------------------------------------------------------ claims: dispatcher and manager
\* C21: when reconnect() returned true and the hook then raised, that is the
\* last thing the call did: the tool is not invoked again and the result is
\* the Failure of the invocation that raised transport-closed (its error, not
\* the hook's); the manager is initialized with the Resource that reconnect()
\* built, whose sessions are open.
C21_HookFailureFails ==
    \A i \in 1..Len(d.trace) :
        d.trace[i] = Event("hook", "raise") =>
            /\ i = Len(d.trace)
            /\ i >= 3
            /\ d.trace[i - 1] = Event("reconnect", "true")
            /\ d.trace[i - 2] = Event("invoke", "closed")
            /\ IsFailure(d)
            /\ d.result = ToolMessage(error_msg(d.tool_name,
                                                [kind |-> "closed", k |-> Invocations(d)]),
                                      d.tool_name, d.tool_call_id)
            /\ last.op = "reconnect"
            /\ last.by = "dispatch"
            /\ last.ret = "true"
            /\ initialized
            /\ ~get_resource(Mgr).raised
            /\ [j \in 1..Len(resource.sessions) |-> resource.sessions[j].host]
                 = OkHosts(endpoints, last.outs, 1)
            /\ resource.tools = ToolLists(resource.sessions, 1)
            /\ Range(resource.sessions) \subseteq open_sessions

\* The hook raised after the second reconnect() of a call had connected both
\* endpoints anew.
C21_Witness ==
    /\ IsFailure(d)
    /\ d.max_retries = 2
    /\ d.trace[Len(d.trace)] = Event("hook", "raise")
    /\ Invocations(d) = 2
    /\ d.result.content = error_msg(d.tool_name, [kind |-> "closed", k |-> 2])
    /\ initialized
    /\ Len(resource.sessions) = 2
    /\ last.was_init

\* C22: a call whose first invocation returned, or raised an error other
\* than transport-closed, or that was made with max_retries = 0, ends right
\* after that invocation without a reconnect(); and the steps of such a call
\* (it is entered, the invocation completes and ends it, it returns) leave
\* the initialized flag, the cached Resource, the exit stack and the open
\* sessions as they were, and no manager call is made.
C22_DispatchFrame ==
    [][/\ ( /\ d'.pc # "idle"
            /\ Len(d'.trace) >= 1
            /\ d'.trace[1].out \in {"ok", "other"} \/ d'.max_retries = 0 )
          => /\ d'.pc = "done"
             /\ Len(d'.trace) = 1
             /\ Reconnects(d') = 0
       /\ ( \/ DispatchStart
            \/ DispatchInvoke /\ d'.pc = "done"
            \/ DispatchReturn )
          => (MgrFields' = MgrFields /\ last' = last)]_vars

\* A call with retries left whose first invocation raised another error, on
\* a manager holding two sessions.
C22_Witness ==
    /\ IsFailure(d)
    /\ d.max_retries = 1
    /\ d.trace = <<Event("invoke", "other")>>
    /\ initialized
    /\ Len(resource.sessions) = 2
    /\ open_sessions = Range(resource.sessions)
    /\ last.op = "initialize"

\* C23 as stated: when initialize() has returned (called directly or by
\* reconnect()), the sessions that are open are exactly the sessions of the
\* Resource: an endpoint that was skipped left no open session behind.
C23_OpenSessionsAreResource ==
    last.op \in {"initialize", "reconnect"}
    => open_sessions = Range(resource.sessions)

\* ------------------------------------------------------------ claims: tasks and lifecycle
\* A cleanup() is unwinding the manager's current exit stack.
CleanupInProgress ==
    \E t \in Tasks : tasks[t].pc = "closing" /\ tasks[t].stack = fm.exit_stack

\* C24 as stated: with two tasks calling the manager, in every state each
\* session that was opened is either closed (or being closed by the
\* cleanup() that took it off its stack) or held by the manager's current
\* exit stack, and while the initialized flag is true (and no cleanup() is
\* on its way to resetting it) the sessions of the cached Resource are open.
C24_NoOrphanSession ==
    /\ \A c \in OpenConns(fm) :
        /\ fm.exit_stack # 0
        /\ c \in Range(fm.stacks[fm.exit_stack])
    /\ (fm.initialized /\ ~CleanupInProgress) =>
        \A s \in Range(fm.resource.sessions) : s.sid \in OpenConns(fm)

\* C25: with one caller, between its calls the initialized flag is true
\* exactly when a Resource is cached, and then the exit stack is present;
\* cleanup() on a manager
\* without an exit stack returns without raising and changes no field and no
\* session.
C25_FieldInvariant ==
    [][/\ initialized' <=> resource'.some
       /\ initialized' => exit_stack'.some
       /\ (MgrCleanup /\ ~exit_stack.some)
            => /\ MgrFields' = MgrFields
               /\ last'.op = "cleanup"
               /\ ~last'.raised]_vars

\* cleanup() called on a manager that an earlier cleanup() has reset after
\* sessions had been opened.
C25_Witness ==
    /\ last.op = "cleanup"
    /\ ~last.was_init
    /\ ~last.raised
    /\ next_sid >= 3
    /\ ~initialized
    /\ ~resource.some
    /\ ~exit_stack.some

\* C26 as stated: a reconnect() during which every configured endpoint
\* failed returned false and left the manager uninitialized; one that
\* returned true reconnected at least one endpoint; so the dispatcher never
\* retries an invocation with an empty Resource cached.
C26_AllFailedGivesFalse ==
    /\ ( /\ last.op = "reconnect"
         /\ Len(endpoints) >= 1
         /\ \A i \in 1..Len(last.outs) : last.outs[i] # "ok" )
       => (last.ret = "false" /\ ~initialized)
    /\ (last.op = "reconnect" /\ Len(endpoints) >= 1 /\ last.ret = "true")
       => Len(resource.sessions) >= 1
    /\ (d.pc = "invoke" /\ d.attempt >= 1 /\ Len(endpoints) >= 1)
       => Len(resource.sessions) >= 1

\* C27 as stated: a Failure whose message says that reconnection was
\* attempted comes from a call during which reconnect() was called; with
\* max_retries = 0 a transport-closed failure carries no such statement.
C27_NoteOnlyAfterReconnect ==
    (IsFailure(d) /\ d.result.content.note) => Reconnects(d) >= 1

\* ------------------------------------------------------------ claims: agent graph routing
\* The tool calls the last message of the state asks for.
Requested(g) == g.messages[Len(g.messages)].tool_calls

\* C29 as stated: a chat step goes to the tool_call step exactly when the
\* LLM's response has tool calls and ends the turn otherwise; a tool_call
\* step always goes back to chat, and when it does the messages added since
\* the chat step that asked for the calls are one ToolMessage per requested
\* call, in the order of the request, each with the id and the name of its
\* call.
C29_RoutingProtocol ==
    [][/\ ChatNode
            => /\ turn'.pc \in {"tool_call", "returned"}
               /\ turn'.pc = "tool_call"
                    <=> /\ Len(turn'.messages) = Len(turn.messages) + 1
                        /\ Requested(turn') # <<>>
       /\ ToolCallNode
            => /\ turn'.pc \in {"tool_call", "chat"}
               /\ turn'.pc = "tool_call" => turn'.messages = turn.messages
               /\ turn'.pc = "chat" =>
                    /\ Len(turn'.messages) = Len(turn.messages) + Len(Requested(turn))
                    /\ SubSeq(turn'.messages, 1, Len(turn.messages)) = turn.messages
                    /\ \A i \in 1..Len(Requested(turn)) :
                        LET m == turn'.messages[Len(turn.messages) + i]
                        IN  /\ m.role = "tool"
                            /\ m.tool.tool_call_id = Requested(turn)[i].id
                            /\ m.tool.name = Requested(turn)[i].name]_vars

\* ------------------------------------------------------------ connection pool: steps
NoPool == <<endpoints, owner, fm, tasks, turn, http>>

PoolWorld(t) == [p |-> [pg EXCEPT !.calls = <<>>], c |-> pg.calls[t]]

SetPool(t, w) == pg' = [w.p EXCEPT !.calls = [pg.calls EXCEPT ![t] = w.c]]

\* The module is imported: settings.ENVIRONMENT is read, _connection_pool
\* is None.
PoolImport ==
    /\ ~pg.loaded
    /\ \E production \in BOOLEAN :
        pg' = [pg EXCEPT !.loaded = TRUE, !.production = production]
    /\ UNCHANGED NoPool

\* Task t calls get_connection_pool().
PoolCall(t) ==
    /\ pg.loaded
    /\ pg.calls[t].pc = "idle"
    /\ \E constructed \in BOOLEAN : SetPool(t, get_connection_pool(PoolWorld(t), constructed))
    /\ UNCHANGED NoPool

\* await _connection_pool.open() completes in task t.
PoolOpenDone(t) ==
    /\ pg.calls[t].pc = "opening"
    /\ \E ok \in BOOLEAN : SetPool(t, pool_opened(PoolWorld(t), ok))
    /\ UNCHANGED NoPool

\* The caller has what get_connection_pool() returned or raised.
PoolCallReturn(t) ==
    /\ pg.calls[t].pc = "returned"
    /\ pg' = [pg EXCEPT !.calls[t] = IdleCall]
    /\ UNCHANGED NoPool

PoolNext ==
    \/ PoolImport
    \/ \E t \in Tasks : PoolCall(t)
    \/ \E t \in Tasks : PoolOpenDone(t)
    \/ \E t \in Tasks : PoolCallReturn(t)

PoolSpec == Init /\ [][PoolNext]_vars

\* ------------------------------------------------------------ claims: connection pool
\* C28 as stated: the cached pool is one whose open() has not failed (it is
\* open, or the call that constructed it is still awaiting its open()), a
\* call that returns a pool returns one whose open() has not failed, and at
\* most one pool was ever opened successfully, which is then the cached one.
C28_NoFailedPoolHandedOut ==
    /\ pg.connection_pool # 0 => pg.pools[pg.connection_pool] # "failed"
    /\ \A t \in Tasks :
        (pg.calls[t].pc = "returned" /\ pg.calls[t].ret = "pool")
        => /\ pg.calls[t].pool # 0
           /\ pg.pools[pg.calls[t].pool] # "failed"
    /\ \A i \in 1..Len(pg.pools) :
        pg.pools[i] = "open" => (pg.connection_pool = i /\ Len(pg.pools) = i)

\* ------------------------------------------------------------ logging middleware: steps
NoHttp == <<endpoints, owner, fm, tasks, turn, pg>>

\* The tool names handle_mcp_tool_call binds as mcp_tool_name.
ToolNames == {tool_call.name : tool_call \in ToolCalls}

\* Code that runs on the worker outside dispatch binds a key
\* (handle_mcp_tool_call binds mcp_tool_name).
HttpBindOutside ==
    /\ http.pc = "idle"
    /\ http.context.mcp_tool_name = ""
    /\ \E tool_name \in ToolNames :
        http' = [http EXCEPT !.context = bind_context(@, "mcp_tool_name", tool_name)]
    /\ UNCHANGED NoHttp

\* A request arrives: dispatch runs up to `await call_next(request)`.
HttpRequest ==
    /\ http.pc = "idle"
    /\ \E request \in Requests :
        LET r == dispatch_enter(http.context, request)
        IN  http' = [NewWorker EXCEPT !.pc = "downstream", !.request = request,
                                      !.context = r.context, !.ops = r.ops]
    /\ UNCHANGED NoHttp

\* The downstream handler dispatches a tool call, which binds mcp_tool_name.
HttpDownstreamBind ==
    /\ http.pc = "downstream"
    /\ http.context.mcp_tool_name = ""
    /\ \E tool_name \in ToolNames :
        http' = [http EXCEPT !.context = bind_context(@, "mcp_tool_name", tool_name)]
    /\ UNCHANGED NoHttp

\* The endpoint's authentication dependency accepts the token and sets
\* request.state.user_id.
HttpAuthenticated ==
    /\ http.pc = "downstream"
    /\ http.user_id = ""
    /\ http.request.scheme = "Bearer" /\ http.request.token.valid
    /\ \E user_id \in {"u1", "u2"} : http' = [http EXCEPT !.user_id = user_id]
    /\ UNCHANGED NoHttp

\* call_next returns the response or raises; dispatch runs to its end.
HttpCallNextDone ==
    /\ http.pc = "downstream"
    /\ \E out \in {"returned", "raised"} :
        LET r == dispatch_exit(http.context, out, http.user_id)
        IN  http' = [http EXCEPT !.pc = "done", !.context = r.context,
                                 !.ops = @ \o r.ops, !.downstream = out,
                                 !.outcome = r.outcome]
    /\ UNCHANGED NoHttp

\* The server has the response or the exception; the worker is free.
HttpDone ==
    /\ http.pc = "done"
    /\ http' = [NewWorker EXCEPT !.context = http.context]
    /\ UNCHANGED NoHttp

HttpNext ==
    \/ HttpBindOutside
    \/ HttpRequest
    \/ HttpDownstreamBind
    \/ HttpAuthenticated
    \/ HttpCallNextDone
    \/ HttpDone

HttpSpec == Init /\ [][HttpNext]_vars

\* ------------------------------------------------------------ claims: logging middleware
\* The request carries a bearer token that decodes to a non-empty sub.
ValidSession(request) ==
    request.scheme = "Bearer" /\ request.token.valid /\ request.token.sub # ""

\* C30: for every request, dispatch clears the context first, before it
\* decodes a token, and last, whether call_next returned or raised, so that
\* the context is empty when dispatch has ended; while the downstream
\* handler runs, session_id is bound, to the sub of the request's token,
\* exactly when the request carries a bearer token that is valid and has a
\* non-empty sub, and nothing of an earlier request or of code outside the
\* request is bound that the handler has not bound itself; dispatch raises
\* only what call_next raised, so a token that is invalid fails no request.
C30_ContextDoesNotLeak ==
    /\ http.pc # "idle" =>
        /\ http.ops[1] = "clear"
        /\ \A i \in 1..Len(http.ops) : http.ops[i] \in {"decode", "bind_session_id"} => i > 1
    /\ http.pc = "downstream" =>
        /\ http.context.session_id # "" <=> ValidSession(http.request)
        /\ ValidSession(http.request) => http.context.session_id = http.request.token.sub
        /\ http.context.user_id = ""
        /\ http.ops[Len(http.ops)] = "call_next"
    /\ http.pc = "done" =>
        /\ http.context = EmptyContext
        /\ http.ops[Len(http.ops)] = "clear"
        /\ http.downstream \in {"returned", "raised"}
        /\ http.outcome = "raised" <=> http.downstream = "raised"
        /\ http.outcome = "response" <=> http.downstream = "returned"
        /\ http.downstream = "returned" =>
            (Count([i \in 1..Len(http.ops) |-> [ev |-> http.ops[i]]], "bind_user_id") = 1
                <=> http.user_id # "")
    /\ http.pc = "idle" =>
        (http.context.session_id = "" /\ http.context.user_id = "")

\* A request with a valid token whose handler was authenticated and raised:
\* dispatch has cleared the context and raised what the handler raised.
C30_Witness ==
    /\ http.pc = "done"
    /\ http.request = Request("Bearer", Token(TRUE, "s2"))
    /\ http.user_id = "u1"
    /\ http.ops = <<"clear", "decode", "bind_session_id", "call_next", "clear">>
    /\ http.downstream = "raised"
    /\ http.outcome = "raised"
    /\ http.context = EmptyContext

====
